---- MODULE Spec2Model ----
(***************************************************************************)
(* Model of the retrieval-augmented answering service:                     *)
(*   - src/src/guardrails.ts   the guardrail engine (checkQuestion,         *)
(*                             checkResponse and their regular expressions) *)
(*   - src/src/chunking.ts     cleanText and chunkText                      *)
(*   - src/src/ingestion.ts    the hash ledger and the ingestion controller *)
(*   - src/src/vectorStore.ts  addChunks, searchChunks, deletions           *)
(*   - src/unnamed/part_001    the HTTP handlers and the server start       *)
(*   - src/unnamed/part_003    answerQuestion                               *)
(*                                                                         *)
(* A text is a sequence of lexemes joined by single spaces.  A lexeme is a  *)
(* concrete phrase; the tables below give, for each phrase, its length in   *)
(* UTF-16 code units, its number of whitespace-separated words, the domain  *)
(* keywords it contains and the span of the match of each regular           *)
(* expression inside it.  Regular expressions are named by the position of  *)
(* the pattern in its list in guardrails.ts.                                *)
(***************************************************************************)
EXTENDS Integers, Sequences, FiniteSets, TLC

VARIABLES
    lastIndex,   \* RegExp.lastIndex of every pattern object of guardrails.ts
    call,        \* the last guardrail call: function, argument, return value
    files,       \* the data directory: file name -> raw content
    ledger,      \* table document_hashes: file name -> record
    store,       \* table document_chunks: the set of its rows
    now,         \* the clock read by new Date() / defaultNow()
    ing,         \* the ingestion in progress (ingestDocuments / ingestFile)
    req          \* the POST /api/ask requests: request -> state of its handler

guardVars == <<lastIndex, call>>
ingestVars == <<files, ledger, store, now, ing>>
vars == <<lastIndex, call, files, ledger, store, now, ing, req>>

----------------------------------------------------------------------------
(* Bounds *)

\* longest text, in lexemes
MaxTokens == 2

\* longest text handed to chunkText, in tokens (words and line breaks)
MaxWords == 4

\* number of ingestion runs (the clock advances once per run)
MaxRuns == 3

\* number of POST /api/ask requests
MaxRequests == 2

\* largest number of tokens countTokens returns
MaxTokenCount == 2

----------------------------------------------------------------------------
(* Lexemes *)

\* "ola" stands for the 3-unit greeting written with a-acute in the tests,
\* "como esta" for the 9-unit phrase with a-acute, "x993" for one word of
\* 993 letters x ("tell me x993" is the shortest text above the ceiling).
QuestionLexemes ==
    {"ignore instructions", "cpf", "Vertex", "ola", "como esta", "tell me", "x993"}

ResponseLexemes ==
    {"as an ai model", "ignore instructions", "cpf", "ola", "tell me"}

Lexemes == QuestionLexemes \cup ResponseLexemes

\* String.prototype.length of the phrase
LexChars(lx) ==
    CASE lx = "ignore instructions" -> 19
      [] lx = "cpf"                 -> 3
      [] lx = "Vertex"              -> 6
      [] lx = "vertex"              -> 6
      [] lx = "ola"                 -> 3
      [] lx = "como esta"           -> 9
      [] lx = "tell me"             -> 7
      [] lx = "x993"                -> 993
      [] lx = "as an ai model"      -> 14
      [] lx = "sem resposta"        -> 12

\* number of whitespace-separated words of the phrase
LexWords(lx) ==
    CASE lx = "ignore instructions" -> 2
      [] lx = "como esta"           -> 2
      [] lx = "tell me"             -> 2
      [] lx = "sem resposta"        -> 2
      [] lx = "as an ai model"      -> 4
      [] OTHER                      -> 1

\* String.prototype.toLowerCase on a phrase
LexToLowerCase(lx) == IF lx = "Vertex" THEN "vertex" ELSE lx

toLowerCase(text) == [i \in 1..Len(text) |-> LexToLowerCase(text[i])]

TextsOver(alphabet) ==
    UNION {[1..n -> alphabet] : n \in 0..MaxTokens}

Questions == TextsOver(QuestionLexemes)
Responses == TextsOver(ResponseLexemes)

RECURSIVE SumChars(_, _)
SumChars(text, n) ==
    IF n = 0 THEN 0 ELSE SumChars(text, n - 1) + LexChars(text[n])

\* text.length: the phrases and one space between two neighbours
Length(text) ==
    IF Len(text) = 0 THEN 0 ELSE SumChars(text, Len(text)) + (Len(text) - 1)

\* index of the first code unit of the i-th phrase
StartOf(text, i) == SumChars(text, i - 1) + (i - 1)

----------------------------------------------------------------------------
(* The pattern lists of guardrails.ts *)

PROMPT_INJECTION_PATTERNS ==
    <<"inj1", "inj2", "inj3", "inj4", "inj5", "inj6",
      "inj7", "inj8", "inj9", "inj10", "inj11", "inj12">>

SENSITIVE_DATA_PATTERNS == <<"sens1", "sens2", "sens3", "sens4", "sens5">>

GENERIC_PATTERNS == <<"gen1", "gen2", "gen3", "gen4">>

SYSTEM_LEAK_PATTERNS == <<"leak1", "leak2", "leak3">>

DOMAIN_KEYWORDS ==
    {"vertex", "gcp", "neo4j", "funil", "lead", "inscrito", "matriculado",
     "aprovado", "reprovado", "pma", "seletivo", "rag", "llm", "embedding",
     "citacoes", "groundedness", "latencia", "custo", "token", "modelo",
     "educacional", "aluno", "curso", "graph", "banco de dados", "pipeline",
     "agente"}

Range(s) == {s[i] : i \in 1..Len(s)}

\* the patterns written with the g flag
GlobalPatterns ==
    Range(PROMPT_INJECTION_PATTERNS) \cup Range(SENSITIVE_DATA_PATTERNS)
        \cup Range(SYSTEM_LEAK_PATTERNS)

\* the patterns written ^...$
AnchoredPatterns == {"gen1"}

\* The match of pattern pat inside phrase lx as <<first, end>> offsets in the
\* phrase (end exclusive), or <<>> when the phrase holds no match.
\*   inj1  /ignore\s+(all\s+)?(previous\s+|prior\s+)?(instructions|...)/gi
\*   sens1 /\b(cpfs?|cnpjs?|rgs?|ssn|social\s+security)\b/gi
\*   gen1  /^(ola|oi|hello|hi)\s*[!?.]?$/i
\*   gen2  /como\s+(voce\s+)?esta/i
\*   leak1 /as\s+an\s+ai\s+(language\s+)?model/gi
LexMatch(lx, pat) ==
    CASE pat = "inj1"  /\ lx = "ignore instructions" -> <<0, 19>>
      [] pat = "sens1" /\ lx = "cpf"                 -> <<0, 3>>
      [] pat = "gen1"  /\ lx = "ola"                 -> <<0, 3>>
      [] pat = "gen2"  /\ lx = "como esta"           -> <<0, 9>>
      [] pat = "leak1" /\ lx = "as an ai model"      -> <<0, 14>>
      [] OTHER                                       -> <<>>

\* String.prototype.includes(keyword) on a phrase (case-sensitive)
LexIncludes(lx, keyword) == lx = "vertex" /\ keyword = "vertex"

----------------------------------------------------------------------------
(* RegExp.prototype.test *)

\* indices of the phrases of text where a match of pat begins at or after
\* offset from
MatchesFrom(text, pat, from) ==
    {i \in 1..Len(text) :
        /\ LexMatch(text[i], pat) # <<>>
        /\ (pat \in AnchoredPatterns => Len(text) = 1)
        /\ StartOf(text, i) + LexMatch(text[i], pat)[1] >= from}

Min(S) == CHOOSE x \in S : \A y \in S : x <= y

\* pattern.test(text) of the pattern object pat whose lastIndex is li[pat]:
\* a g pattern searches from lastIndex and stores the end of the match, or 0
\* when there is none; a pattern without g searches from 0 and stores nothing
RegExpTest(text, pat, li) ==
    LET from  == IF pat \in GlobalPatterns THEN li[pat] ELSE 0
        found == MatchesFrom(text, pat, from)
        first == Min(found)
        end   == StartOf(text, first) + LexMatch(text[first], pat)[2]
    IN  IF pat \notin GlobalPatterns
        THEN [found |-> found # {}, lastIndex |-> li]
        ELSE IF found = {}
        THEN [found |-> FALSE, lastIndex |-> [li EXCEPT ![pat] = 0]]
        ELSE [found |-> TRUE, lastIndex |-> [li EXCEPT ![pat] = end]]

RECURSIVE SomeFrom(_, _, _, _)
SomeFrom(text, patterns, k, li) ==
    IF k > Len(patterns)
    THEN [found |-> FALSE, lastIndex |-> li]
    ELSE LET r == RegExpTest(text, patterns[k], li)
         IN  IF r.found THEN r ELSE SomeFrom(text, patterns, k + 1, r.lastIndex)

\* patterns.some((pattern) => pattern.test(text))
matchesAnyPattern(text, patterns, li) == SomeFrom(text, patterns, 1, li)

----------------------------------------------------------------------------
(* The checks *)

MaxQuestionLength == 1000
MinWordCount == 3

NULL == [null |-> TRUE]

\* the reason texts, named by the policy they explain
Reason(policy) == <<"reason", policy>>

Violation(policy) ==
    [blocked |-> TRUE, reason |-> Reason(policy), policy_violated |-> policy]
NotBlocked == [blocked |-> FALSE]

containsDomainKeyword(question) ==
    LET lowerQuestion == toLowerCase(question)
    IN  \E keyword \in DOMAIN_KEYWORDS :
            \E i \in 1..Len(lowerQuestion) : LexIncludes(lowerQuestion[i], keyword)

isGenericQuestion(question, li) == matchesAnyPattern(question, GENERIC_PATTERNS, li)

RECURSIVE SumWords(_, _)
SumWords(text, n) ==
    IF n = 0 THEN 0 ELSE SumWords(text, n - 1) + LexWords(text[n])

\* text.trim().split(/\s+/).length; the empty string splits into [""]
getWordCount(text) == IF Len(text) = 0 THEN 1 ELSE SumWords(text, Len(text))

\* Every check returns [result, lastIndex]: its GuardrailResult or NULL, and
\* the lastIndex of the pattern objects after it ran.
checkPromptInjection(question, li) ==
    LET m == matchesAnyPattern(question, PROMPT_INJECTION_PATTERNS, li)
    IN  [result    |-> IF m.found THEN Violation("PROMPT_INJECTION") ELSE NULL,
         lastIndex |-> m.lastIndex]

checkSensitiveData(question, li) ==
    LET m == matchesAnyPattern(question, SENSITIVE_DATA_PATTERNS, li)
    IN  [result    |-> IF m.found THEN Violation("SENSITIVE_DATA") ELSE NULL,
         lastIndex |-> m.lastIndex]

\* the ceiling tested before the word count
checkQuestionLength_CeilingFirst(question, li) ==
    LET wordCount == getWordCount(question)
    IN  [result    |-> IF Length(question) > MaxQuestionLength
                         THEN Violation("QUERY_TOO_LONG")
                       ELSE IF wordCount < MinWordCount
                         THEN Violation("INVALID_QUERY")
                       ELSE NULL,
         lastIndex |-> li]

checkQuestionLength(question, li) ==
    LET wordCount == getWordCount(question)
    IN  [result    |-> IF wordCount < MinWordCount
                         THEN Violation("INVALID_QUERY")
                       ELSE IF Length(question) > MaxQuestionLength
                         THEN Violation("QUERY_TOO_LONG")
                       ELSE NULL,
         lastIndex |-> li]

checkDomain(question, li) ==
    LET hasDomainKeyword == containsDomainKeyword(question)
        isGeneric        == isGenericQuestion(question, li)
    IN  [result    |-> IF ~hasDomainKeyword /\ isGeneric.found
                         THEN Violation("OUT_OF_DOMAIN")
                       ELSE NULL,
         lastIndex |-> isGeneric.lastIndex]

\* the length check placed before the domain check
checks_LengthBeforeDomain ==
    <<"checkPromptInjection", "checkSensitiveData", "checkQuestionLength",
      "checkDomain">>

checks == <<"checkPromptInjection", "checkSensitiveData", "checkDomain",
            "checkQuestionLength">>

RunCheck(check, question, li) ==
    CASE check = "checkPromptInjection" -> checkPromptInjection(question, li)
      [] check = "checkSensitiveData"   -> checkSensitiveData(question, li)
      [] check = "checkDomain"          -> checkDomain(question, li)
      [] check = "checkQuestionLength"  -> checkQuestionLength(question, li)

RECURSIVE ChecksFrom(_, _, _)
ChecksFrom(question, k, li) ==
    IF k > Len(checks)
    THEN [result |-> NotBlocked, lastIndex |-> li]
    ELSE LET r == RunCheck(checks[k], question, li)
         IN  IF r.result # NULL THEN r ELSE ChecksFrom(question, k + 1, r.lastIndex)

\* for (const check of checks) { ... } return { blocked: false }
checkQuestion(question, li) == ChecksFrom(question, 1, li)

checkResponse(response, li) ==
    LET m == matchesAnyPattern(response, SYSTEM_LEAK_PATTERNS, li)
    IN  [result    |-> IF m.found THEN Violation("SYSTEM_LEAK") ELSE NotBlocked,
         lastIndex |-> m.lastIndex]

----------------------------------------------------------------------------------------------------------------------------------------------------
(* Documents *)

\* A document is a sequence of tokens: words, and the line break "\n".  Two
\* neighbouring words are separated by one space.  "x249" is a word of 249
\* letters, so that two of them fill a chunk of 500, "x3" a word of 3 letters.
WordLength(word) ==
    CASE word = ""     -> 0
      [] word = "a"    -> 1
      [] word = "b"    -> 1
      [] word = "x3"   -> 3
      [] word = "x249" -> 249

IsBreak(token) == token = "\n"

RECURSIVE DropLeadingBreaks(_)
DropLeadingBreaks(text) ==
    IF text # <<>> /\ IsBreak(Head(text)) THEN DropLeadingBreaks(Tail(text)) ELSE text

RECURSIVE DropTrailingBreaks(_)
DropTrailingBreaks(text) ==
    IF text # <<>> /\ IsBreak(text[Len(text)])
    THEN DropTrailingBreaks(SubSeq(text, 1, Len(text) - 1))
    ELSE text

\* .replace(/\n{3,}/g, '\n\n'): a run of three or more breaks becomes two
RECURSIVE CollapseBreaks(_, _)
CollapseBreaks(text, run) ==
    IF text = <<>> THEN <<>>
    ELSE IF IsBreak(Head(text))
         THEN IF run >= 2 THEN CollapseBreaks(Tail(text), run + 1)
              ELSE <<Head(text)>> \o CollapseBreaks(Tail(text), run + 1)
         ELSE <<Head(text)>> \o CollapseBreaks(Tail(text), 0)

cleanText(text) == DropTrailingBreaks(DropLeadingBreaks(CollapseBreaks(text, 0)))

RECURSIVE WordsOf(_)
WordsOf(text) ==
    IF text = <<>> THEN <<>>
    ELSE IF IsBreak(Head(text)) THEN WordsOf(Tail(text))
         ELSE <<Head(text)>> \o WordsOf(Tail(text))

\* text.split(/\s+/): the empty text splits into one empty word, and
\* whitespace at the start or at the end of the text gives an empty word
\* there
Split(text) ==
    IF text = <<>> THEN <<"">>
    ELSE (IF IsBreak(Head(text)) THEN <<"">> ELSE <<>>)
            \o WordsOf(text)
            \o (IF IsBreak(text[Len(text)]) THEN <<"">> ELSE <<>>)

\* calculateHash: SHA-256 of the raw content, distinct contents give
\* distinct digests
calculateHash(content) == <<"sha256", content>>

----------------------------------------------------------------------------
(* chunkText *)

chunkSize == 500
chunkOverlap == 50
topK == 3

RECURSIVE JoinLengthTo(_, _)
JoinLengthTo(ws, n) ==
    IF n = 0 THEN 0 ELSE JoinLengthTo(ws, n - 1) + WordLength(ws[n])

\* ws.join(' ').length
JoinLength(ws) == IF ws = <<>> THEN 0 ELSE JoinLengthTo(ws, Len(ws)) + (Len(ws) - 1)

\* the first k elements are kept instead of the last
SliceLast_FromStart(ws, k) ==
    IF k = 0 \/ k >= Len(ws) THEN ws ELSE SubSeq(ws, 1, k)

\* ws.slice(-k): the last k elements, and the whole array when k = 0
SliceLast(ws, k) ==
    IF k = 0 \/ k >= Len(ws) THEN ws ELSE SubSeq(ws, Len(ws) - k + 1, Len(ws))

NewChunk(source, chunkIndex, content) ==
    [id       |-> <<source, "_chunk_", chunkIndex>>,
     content  |-> content,
     source   |-> source,
     metadata |-> [chunk_index |-> chunkIndex, total_chunks |-> 0]]

\* the loop over the words, from word i on
RECURSIVE ChunkLoop(_, _, _, _, _, _, _, _, _)
ChunkLoop(words, i, currentChunk, currentLength, chunkIndex, chunks, source, size, overlap) ==
    IF i > Len(words)
    THEN IF Len(currentChunk) > 0
         THEN Append(chunks, NewChunk(source, chunkIndex, currentChunk))
         ELSE chunks
    ELSE LET word       == words[i]
             wordLength == WordLength(word) + 1
         IN  IF currentLength + wordLength > size /\ Len(currentChunk) > 0
             THEN LET overlapWords == (overlap * Len(currentChunk)) \div size
                      carried      == SliceLast(currentChunk, overlapWords)
                  IN  ChunkLoop(words, i + 1, Append(carried, word),
                                JoinLength(carried) + wordLength, chunkIndex + 1,
                                Append(chunks, NewChunk(source, chunkIndex, currentChunk)),
                                source, size, overlap)
             ELSE ChunkLoop(words, i + 1, Append(currentChunk, word),
                            currentLength + wordLength, chunkIndex, chunks,
                            source, size, overlap)

\* total_chunks is left as pushed
chunkText_TotalsNotSet(text, source, size, overlap) ==
    ChunkLoop(Split(text), 1, <<>>, 0, 0, <<>>, source, size, overlap)

chunkText(text, source, size, overlap) ==
    LET chunks == ChunkLoop(Split(text), 1, <<>>, 0, 0, <<>>, source, size, overlap)
    IN  [k \in 1..Len(chunks) |->
            [chunks[k] EXCEPT !.metadata.total_chunks = Len(chunks)]]

----------------------------------------------------------------------------
(* The data directory, the ledger and the store *)

DirEntries == <<"a.md", "b.md", "notes.txt">>

EndsWithMd(f) == f \in {"a.md", "b.md"}

\* files.filter((f) => f.endsWith('.md'))
getMarkdownFiles == SelectSeq(DirEntries, EndsWithMd)

MdFiles == Range(getMarkdownFiles)

RawContents ==
    {<<"a">>, <<"a", "\n">>, <<"x249", "x249", "x249", "x249">>}

NoRecord == [none |-> TRUE]

\* the row addChunks inserts for a chunk
Row(chunk) ==
    [chunkId     |-> chunk.id,
     content     |-> chunk.content,
     source      |-> chunk.source,
     chunkIndex  |-> chunk.metadata.chunk_index,
     totalChunks |-> chunk.metadata.total_chunks,
     embedding   |-> <<"embedding", chunk.content>>]

RowsOf(st, source) == {row \in st : row.source = source}

\* every document is ingested again
needsReingestion_Always(filename, content, ldg, st) == TRUE

\* the chunks are not looked for
needsReingestion_HashOnly(filename, content, ldg, st) ==
    LET contentHash == calculateHash(content)
        existing    == ldg[filename]
    IN  IF existing = NoRecord THEN TRUE
        ELSE existing.contentHash # contentHash

needsReingestion(filename, content, ldg, st) ==
    LET contentHash == calculateHash(content)
        existing    == ldg[filename]
    IN  IF existing = NoRecord THEN TRUE
        ELSE IF existing.contentHash # contentHash THEN TRUE
        ELSE IF RowsOf(st, filename) = {} THEN TRUE
        ELSE FALSE

\* upsertDocumentHash: insert (last_ingested defaults to now) or update
upsertDocumentHash(filename, content, ldg, time) ==
    [ldg EXCEPT ![filename] =
        [contentHash |-> calculateHash(content), lastIngested |-> time]]

\* deleteChunksBySource
deleteChunksBySource(st, source) == st \ RowsOf(st, source)

----------------------------------------------------------------------------
(* The ingestion controller: ingestDocuments, reingestDocuments, ingestFile *)

NoOps == [embedCalls |-> 0, deletes |-> 0, inserted |-> 0, ledgerWrites |-> 0]

\* the document is recorded with the hash of its present content and has
\* chunks in the store
UpToDate(f) ==
    /\ ledger[f] # NoRecord
    /\ ledger[f].contentHash = calculateHash(files[f])
    /\ RowsOf(store, f) # {}

\* pc:       the step the run is at
\* queue:    the files of the for loop not yet finished, the current one first
\* raw:      rawContent of the current file
\* needsUpdate: what needsReingestion returned for the current file
\* chunks:   the chunks handed to addChunks
\* pending:  the chunks whose embedding call is in flight
\* embedded: the chunks whose embedding call has returned a vector
\* error:    the error thrown to the caller of the run
\* ops:      per file, what this run has done
\* unchanged, ledger0: the files that were up to date when the run listed
\*           the directory, and the ledger at that moment
\* caller:   the function that started the run
\* interrupted: the files whose ingestion the run before stopped in, after
\*           addChunks had inserted the chunks and before upsertDocumentHash
\*           had written the ledger, and whose content is still the same
IngIdle ==
    [pc |-> "idle", queue |-> <<>>, raw |-> <<>>, needsUpdate |-> FALSE,
     chunks |-> <<>>, pending |-> {}, embedded |-> {}, error |-> "none",
     ops |-> [f \in MdFiles |-> NoOps], unchanged |-> {},
     ledger0 |-> [f \in MdFiles |-> NoRecord],
     caller |-> "none", interrupted |-> {}]

IngestInit ==
    /\ files = [f \in MdFiles |-> <<"a">>]
    /\ ledger = [f \in MdFiles |-> NoRecord]
    /\ store = {}
    /\ now = 0
    /\ ing = IngIdle

Stopped == ing.pc \in {"idle", "done", "failed"}

Current == Head(ing.queue)

\* the error of a file is logged and the loop goes on with the next file
Throw_Swallowed(error) ==
    IF ing.queue = <<>>
    THEN [ing EXCEPT !.pc = "failed", !.error = error]
    ELSE [ing EXCEPT !.error = error,
                     !.queue = Tail(ing.queue),
                     !.pc = IF Tail(ing.queue) = <<>> THEN "done" ELSE "read"]

\* the error leaves ingestFile and ingestDocuments (both log and rethrow)
Throw(error) == [ing EXCEPT !.pc = "failed", !.error = error]

\* end of one iteration of for (const file of markdownFiles)
NextFile(i) ==
    [i EXCEPT !.queue = Tail(i.queue),
              !.pc = IF Tail(i.queue) = <<>> THEN "done" ELSE "read"]

\* the document changes on disk between two runs
EditFile ==
    /\ Stopped
    /\ \E f \in MdFiles, c \in RawContents :
        /\ c # files[f]
        /\ files' = [files EXCEPT ![f] = c]
    /\ UNCHANGED <<ledger, store, now, ing>>

\* the file the stopped run was ingesting when it stopped between the
\* insertion of the chunks and the ledger write, if its content is the same
Interrupted ==
    IF /\ ing.pc = "failed"
       /\ ing.queue # <<>>
       /\ ing.ops[Head(ing.queue)].inserted > 0
       /\ ing.ops[Head(ing.queue)].ledgerWrites = 0
       /\ files[Head(ing.queue)] = ing.raw
    THEN {Head(ing.queue)}
    ELSE {}

\* ingestDocuments is called
IngestDocuments ==
    /\ Stopped
    /\ now < MaxRuns
    /\ now' = now + 1
    /\ ing' = [IngIdle EXCEPT !.pc = "list", !.caller = "ingestDocuments",
                              !.interrupted = Interrupted]
    /\ UNCHANGED <<files, ledger, store>>

\* the chunks are not cleared
ReingestDocuments_KeepsStore ==
    /\ Stopped
    /\ now < MaxRuns
    /\ now' = now + 1
    /\ store' = store
    /\ ing' = [IngIdle EXCEPT !.pc = "list", !.caller = "reingestDocuments"]
    /\ UNCHANGED <<files, ledger>>

\* reingestDocuments is called: clearVectorStore, then ingestDocuments
ReingestDocuments ==
    /\ Stopped
    /\ now < MaxRuns
    /\ now' = now + 1
    /\ \/ /\ store' = {}
          /\ ing' = [IngIdle EXCEPT !.pc = "list", !.caller = "reingestDocuments"]
       \/ /\ store' = store
          /\ ing' = [IngIdle EXCEPT !.pc = "failed", !.error = "StorageError",
                                    !.caller = "reingestDocuments"]
    /\ UNCHANGED <<files, ledger>>

\* startServer: ingestDocuments is called only when hasData() is false;
\* hasData is count(document_chunks) > 0, and false when its query fails.
\* A run that ends in an error ends the process (process.exit(1)).
StartServer ==
    /\ Stopped
    /\ now < MaxRuns
    /\ now' = now + 1
    /\ \E dataExists \in (IF store # {} THEN {TRUE, FALSE} ELSE {FALSE}) :
        ing' = IF dataExists
               THEN [IngIdle EXCEPT !.pc = "done", !.caller = "startServer"]
               ELSE [IngIdle EXCEPT !.pc = "list", !.caller = "startServer",
                                    !.interrupted = Interrupted]
    /\ UNCHANGED <<files, ledger, store>>

\* Bun.serve has been called: the server answers requests
Serving == ing.caller = "startServer" /\ ing.pc = "done"

\* getMarkdownFiles
ListFiles ==
    /\ ing.pc = "list"
    /\ ing' = [ing EXCEPT
                 !.queue = getMarkdownFiles,
                 !.pc = IF getMarkdownFiles = <<>> THEN "done" ELSE "read",
                 !.unchanged = {f \in MdFiles : UpToDate(f)},
                 !.ledger0 = ledger]
    /\ UNCHANGED <<files, ledger, store, now>>

\* ingestFile: fs.readFile
ReadFile ==
    /\ ing.pc = "read"
    /\ ing' = [ing EXCEPT !.raw = files[Current], !.pc = "check"]
    /\ UNCHANGED <<files, ledger, store, now>>

\* ingestFile: needsReingestion, and the early return when it is false
CheckNeedsReingestion ==
    /\ ing.pc = "check"
    /\ LET needsUpdate == needsReingestion(Current, ing.raw, ledger, store)
       IN  ing' = IF needsUpdate
                  THEN [ing EXCEPT !.needsUpdate = TRUE, !.pc = "delete"]
                  ELSE NextFile([ing EXCEPT !.needsUpdate = FALSE])
    /\ UNCHANGED <<files, ledger, store, now>>

\* the hash is written before addChunks is called
DeleteOldChunks_HashFirst ==
    /\ ing.pc = "delete"
    /\ LET f        == Current
           existing == ledger[f]
           chunks   == chunkText(cleanText(ing.raw), f, chunkSize, chunkOverlap)
       IN  /\ store' = IF existing # NoRecord
                         THEN deleteChunksBySource(store, f)
                         ELSE store
           /\ ledger' = upsertDocumentHash(f, ing.raw, ledger, now)
           /\ ing' = [ing EXCEPT
                        !.pc = "embed",
                        !.chunks = chunks,
                        !.pending = 1..Len(chunks),
                        !.embedded = {},
                        !.ops[f].deletes = @ + (IF existing # NoRecord THEN 1 ELSE 0),
                        !.ops[f].embedCalls = @ + Len(chunks)]
    /\ UNCHANGED <<files, now>>

\* ingestFile: delete the old chunks when a ledger record exists, chunk the
\* cleaned content, and addChunks up to the embedding calls it issues
DeleteOldChunks ==
    /\ ing.pc = "delete"
    /\ LET f        == Current
           existing == ledger[f]
           chunks   == chunkText(cleanText(ing.raw), f, chunkSize, chunkOverlap)
       IN  /\ store' = IF existing # NoRecord
                         THEN deleteChunksBySource(store, f)
                         ELSE store
           /\ ing' = [ing EXCEPT
                        !.pc = "embed",
                        !.chunks = chunks,
                        !.pending = 1..Len(chunks),
                        !.embedded = {},
                        !.ops[f].deletes = @ + (IF existing # NoRecord THEN 1 ELSE 0),
                        !.ops[f].embedCalls = @ + Len(chunks)]
    /\ UNCHANGED <<files, ledger, now>>

\* one embedding call of the batch returns its vector; Promise.all resolves
\* with the last one
EmbeddingResolved(k) ==
    /\ ing.pc = "embed"
    /\ k \in ing.pending
    /\ ing' = [ing EXCEPT
                 !.pending = @ \ {k},
                 !.embedded = @ \cup {k},
                 !.pc = IF ing.pending = {k} THEN "insert" ELSE "embed"]
    /\ UNCHANGED <<files, ledger, store, now>>

\* the chunks already embedded are inserted when a call fails
EmbeddingFailed_InsertsSettled(k) ==
    /\ ing.pc = "embed"
    /\ k \in ing.pending
    /\ ing' = [Throw("EmbeddingProviderError") EXCEPT !.pending = @ \ {k}]
    /\ store' = store \cup {Row(ing.chunks[j]) : j \in ing.embedded}
    /\ UNCHANGED <<files, ledger, now>>

\* one embedding call of the batch fails: Promise.all rejects, addChunks
\* throws, the other calls stay in flight
EmbeddingFailed(k) ==
    /\ ing.pc = "embed"
    /\ k \in ing.pending
    /\ ing' = [Throw("EmbeddingProviderError") EXCEPT !.pending = @ \ {k}]
    /\ UNCHANGED <<files, ledger, store, now>>

\* an embedding call of a batch that already failed settles
LateEmbeddingSettles(k) ==
    /\ ing.pc = "failed"
    /\ k \in ing.pending
    /\ ing' = [ing EXCEPT !.pending = @ \ {k}]
    /\ UNCHANGED <<files, ledger, store, now>>

insertData == {Row(ing.chunks[k]) : k \in 1..Len(ing.chunks)}

\* addChunks: db.insert(documentChunks).values(insertData), one statement;
\* chunk_id is unique, a duplicate makes the statement fail
InsertChunks ==
    /\ ing.pc = "insert"
    /\ IF \E row \in insertData : \E old \in store : old.chunkId = row.chunkId
       THEN /\ store' = store
            /\ ing' = Throw("StorageError")
       ELSE /\ store' = store \cup insertData
            /\ ing' = [ing EXCEPT !.pc = "upsert",
                                  !.ops[Current].inserted = @ + Len(ing.chunks)]
    /\ UNCHANGED <<files, ledger, now>>

\* ingestFile: upsertDocumentHash, then the next file
UpsertHash ==
    /\ ing.pc = "upsert"
    /\ ledger' = upsertDocumentHash(Current, ing.raw, ledger, now)
    /\ ing' = NextFile([ing EXCEPT !.ops[Current].ledgerWrites = @ + 1])
    /\ UNCHANGED <<files, store, now>>

\* readdir, readFile or a statement of the storage fails
StepFails ==
    /\ ing.pc \in {"list", "read", "check", "delete", "insert", "upsert"}
    /\ ing' = Throw(IF ing.pc \in {"list", "read"} THEN "IOError" ELSE "StorageError")
    /\ UNCHANGED <<files, ledger, store, now>>

IngestNext ==
    \/ EditFile
    \/ IngestDocuments
    \/ ReingestDocuments
    \/ StartServer
    \/ ListFiles
    \/ ReadFile
    \/ CheckNeedsReingestion
    \/ DeleteOldChunks
    \/ \E k \in ing.pending : EmbeddingResolved(k)
    \/ \E k \in ing.pending : EmbeddingFailed(k)
    \/ \E k \in ing.pending : LateEmbeddingSettles(k)
    \/ InsertChunks
    \/ UpsertHash
    \/ StepFails

----------------------------------------------------------------------------
(* POST /api/ask and answerQuestion *)

Requests == 1..MaxRequests

\* questions of the test script: an in-domain question, an injection, a
\* request for sensitive data, a greeting
AskQuestions ==
    {<<"tell me", "Vertex">>, <<"ignore instructions", "tell me">>,
     <<"cpf", "tell me">>, <<"ola">>}

\* request bodies: not JSON, JSON without question, a question that is not a
\* string, the empty string, a question
AskBodies ==
    {[kind |-> "malformed"], [kind |-> "no question"], [kind |-> "not a string"]}
        \cup {[kind |-> "string", question |-> q] : q \in AskQuestions \cup {<<>>}}

\* completion.choices[0]?.message?.content: empty, a leak, a plain answer
Completions == {<<>>, <<"as an ai model">>, <<"tell me", "Vertex">>}

\* a question or an answer not there yet
NoText == <<"null">>

\* countTokens: the number of tokens of the tokenizer, or
\* Math.ceil(text.length / 4) when the tokenizer throws; the prompt and the
\* answer are never empty
TokenCounts == 1..MaxTokenCount

NoReq ==
    [pc |-> "new", question |-> NoText, guardrailResult |-> NULL,
     citations |-> <<>>, answer |-> NoText, responseGuardrail |-> NULL,
     response |-> NULL,
     calls |-> [embedding |-> 0, search |-> 0, completion |-> 0],
     promptTokens |-> 0, completionTokens |-> 0]

AskInit == req = [r \in Requests |-> NoReq]

\* the response of the catch block of the handler
InternalError(r) ==
    [status |-> 500, error |-> "Erro interno ao processar a pergunta", request_id |-> r]

Respond(r, response) == [req EXCEPT ![r].pc = "done", ![r].response = response]

\* if (guardrailResult.blocked) return ...
QuestionAdmitted_Always(guardrailResult) == TRUE

QuestionAdmitted(guardrailResult) == ~guardrailResult.blocked

\* if (responseGuardrail.blocked) return ...
AnswerAdmitted_Always(responseGuardrail) == TRUE

AnswerAdmitted(responseGuardrail) == ~responseGuardrail.blocked

\* buildCitations (the score, 1 - distance, is left out)
buildCitations(results) ==
    [k \in 1..Len(results) |->
        [source |-> results[k].source, excerpt |-> results[k].content]]

RECURSIVE SumExcerpts(_, _)
SumExcerpts(citations, n) ==
    IF n = 0 THEN 0
    ELSE SumExcerpts(citations, n - 1) + JoinLength(citations[n].excerpt)

\* the prices of estimateCost, in units of 0.00001 USD per token:
\* (promptTokens / 1000) * 0.01 and (completionTokens / 1000) * 0.03
InputPrice == 1
OutputPrice == 3

\* the two prices are exchanged
estimateCost_PricesExchanged(promptTokens, completionTokens) ==
    promptTokens * OutputPrice + completionTokens * InputPrice

\* estimateCost, in units of 0.00001 USD
estimateCost(promptTokens, completionTokens) ==
    LET inputCost  == promptTokens * InputPrice
        outputCost == completionTokens * OutputPrice
    IN  inputCost + outputCost

\* calculateMetrics, without the three latencies read from the clock
calculateMetrics(promptTokens, completionTokens, citations) ==
    [prompt_tokens      |-> promptTokens,
     completion_tokens  |-> completionTokens,
     total_tokens       |-> promptTokens + completionTokens,
     estimated_cost_usd |-> estimateCost(promptTokens, completionTokens),
     top_k_used         |-> topK,
     context_size_chars |-> SumExcerpts(citations, Len(citations))]

\* the rows a similarity search can return: LIMIT topK rows of the store,
\* in the order of their distance to the query
SearchResults(st) ==
    LET n == IF Cardinality(st) < topK THEN Cardinality(st) ELSE topK
    IN  {rows \in [1..n -> st] : \A i, j \in 1..n : i # j => rows[i] # rows[j]}

\* the handler from the request to its first await that can wait: the body
\* is parsed and validated, checkQuestion runs, and an admitted question
\* goes to answerQuestion, searchChunks and the embedding call of the query
AskReceive(r) ==
    /\ req[r].pc = "new"
    /\ IF r = 1 THEN TRUE ELSE req[r - 1].pc # "new"
    /\ \E body \in AskBodies :
        IF body.kind = "malformed"
        THEN /\ req' = Respond(r, InternalError(r))
             /\ UNCHANGED lastIndex
        ELSE IF body.kind # "string" \/ body.question = <<>>
        THEN /\ req' = Respond(r, [status |-> 400, error |-> "question required"])
             /\ UNCHANGED lastIndex
        ELSE LET question == body.question
                 checked  == checkQuestion(question, lastIndex)
                 guardrailResult == checked.result
             IN  /\ lastIndex' = checked.lastIndex
                 /\ req' =
                      IF ~QuestionAdmitted(guardrailResult)
                      THEN [req EXCEPT
                              ![r].pc = "done",
                              ![r].question = question,
                              ![r].guardrailResult = guardrailResult,
                              ![r].response =
                                  [status |-> 403, blocked |-> TRUE,
                                   reason |-> guardrailResult.reason,
                                   policy_violated |-> guardrailResult.policy_violated]]
                      ELSE [req EXCEPT
                              ![r].pc = "embedding",
                              ![r].question = question,
                              ![r].guardrailResult = guardrailResult,
                              ![r].calls.embedding = @ + 1]
    /\ UNCHANGED <<call, ingestVars>>

\* searchChunks: the embedding of the query arrives, the search is sent
AskEmbeddingReturns(r) ==
    /\ req[r].pc = "embedding"
    /\ req' = [req EXCEPT ![r].pc = "searching", ![r].calls.search = @ + 1]
    /\ UNCHANGED <<lastIndex, call, ingestVars>>

\* searchChunks: the rows arrive; answerQuestion builds the prompt, counts
\* its tokens and sends the completion request
AskSearchReturns(r) ==
    /\ req[r].pc = "searching"
    /\ \E results \in SearchResults(store), promptTokens \in TokenCounts :
        req' = [req EXCEPT ![r].pc = "completing",
                           ![r].citations = buildCitations(results),
                           ![r].promptTokens = promptTokens,
                           ![r].calls.completion = @ + 1]
    /\ UNCHANGED <<lastIndex, call, ingestVars>>

\* generateAnswer returns; answerQuestion counts the tokens of the answer
\* and returns {answer, citations, metrics}; the handler runs checkResponse
\* and responds
AskCompletionReturns(r) ==
    /\ req[r].pc = "completing"
    /\ \E content \in Completions, completionTokens \in TokenCounts :
        LET answer  == IF content = <<>> THEN <<"sem resposta">> ELSE content
            metrics == calculateMetrics(req[r].promptTokens, completionTokens,
                                        req[r].citations)
            checked == checkResponse(answer, lastIndex)
            responseGuardrail == checked.result
        IN  /\ lastIndex' = checked.lastIndex
            /\ req' =
                 [req EXCEPT
                    ![r].pc = "done",
                    ![r].answer = answer,
                    ![r].completionTokens = completionTokens,
                    ![r].responseGuardrail = responseGuardrail,
                    ![r].response =
                        IF ~AnswerAdmitted(responseGuardrail)
                        THEN [status |-> 500,
                              error  |-> "Erro na geracao da resposta",
                              reason |-> IF responseGuardrail.blocked
                                           THEN responseGuardrail.reason
                                           ELSE NULL]
                        ELSE [status |-> 200, answer |-> answer,
                              citations |-> req[r].citations,
                              metrics |-> metrics,
                              request_id |-> r]]
    /\ UNCHANGED <<call, ingestVars>>

\* the embedding call, the search or the completion fails: the error passes
\* through answerQuestion to the catch block of the handler
AskProviderFails(r) ==
    /\ req[r].pc \in {"embedding", "searching", "completing"}
    /\ req' = Respond(r, InternalError(r))
    /\ UNCHANGED <<lastIndex, call, ingestVars>>

AskNext ==
    \E r \in Requests :
        \/ AskReceive(r)
        \/ AskEmbeddingReturns(r)
        \/ AskSearchReturns(r)
        \/ AskCompletionReturns(r)
        \/ AskProviderFails(r)

----------------------------------------------------------------------------
(* The guardrail engine called directly by a caller that makes one call,  *)
(* looks at the returned value and then makes the next call               *)

NoCall == [fn |-> "none"]

GuardInit ==
    /\ lastIndex = [p \in GlobalPatterns |-> 0]
    /\ call = NoCall
    /\ IngestInit
    /\ AskInit

\* checkQuestion(q) runs to its return
CallCheckQuestion ==
    /\ call = NoCall
    /\ \E q \in Questions :
        LET r == checkQuestion(q, lastIndex)
        IN  /\ lastIndex' = r.lastIndex
            /\ call' = [fn |-> "checkQuestion", text |-> q, result |-> r.result]
    /\ UNCHANGED <<ingestVars, req>>

\* checkResponse(a) runs to its return
CallCheckResponse ==
    /\ call = NoCall
    /\ \E a \in Responses :
        LET r == checkResponse(a, lastIndex)
        IN  /\ lastIndex' = r.lastIndex
            /\ call' = [fn |-> "checkResponse", text |-> a, result |-> r.result]
    /\ UNCHANGED <<ingestVars, req>>

\* the caller is done with the returned value
Return ==
    /\ call # NoCall
    /\ call' = NoCall
    /\ UNCHANGED lastIndex
    /\ UNCHANGED <<ingestVars, req>>

GuardNext == CallCheckQuestion \/ CallCheckResponse \/ Return

SpecGuard == GuardInit /\ [][GuardNext]_vars

QuestionNext == CallCheckQuestion \/ Return

SpecQuestion == GuardInit /\ [][QuestionNext]_vars

----------------------------------------------------------------------------
(* chunkText called directly *)

ChunkTokens == {"a", "x3", "x249", "\n"}

RECURSIVE TokensOver(_)
TokensOver(n) ==
    IF n = 0 THEN {<<>>}
    ELSE TokensOver(n - 1)
           \cup {Append(t, w) : t \in {u \in TokensOver(n - 1) : Len(u) = n - 1},
                                w \in ChunkTokens}

\* the texts, the sources and the sizes chunkText is called with; the last
\* size and the last overlap are the defaults of config.ts
ChunkTexts == TokensOver(MaxWords)

ChunkSources == {"a.md", "test.md"}

ChunkSizes == {4, 8, chunkSize}

ChunkOverlaps == {0, 1, 2, 4, chunkOverlap}

\* chunkText(text, source, size, overlap) runs to its return
CallChunkText ==
    /\ call = NoCall
    /\ \E text \in ChunkTexts, source \in ChunkSources,
          size \in ChunkSizes, overlap \in ChunkOverlaps :
        call' = [fn |-> "chunkText", text |-> text, source |-> source,
                 size |-> size, overlap |-> overlap,
                 result |-> chunkText(text, source, size, overlap)]
    /\ UNCHANGED <<lastIndex, ingestVars, req>>

ChunkNext == CallChunkText \/ Return

SpecChunk == GuardInit /\ [][ChunkNext]_vars

----------------------------------------------------------------------------
(* Ingestion runs on their own *)

SpecIngestInit ==
    /\ lastIndex = [p \in GlobalPatterns |-> 0]
    /\ call = NoCall
    /\ IngestInit
    /\ AskInit

SpecIngestNext == IngestNext /\ UNCHANGED <<guardVars, req>>

SpecIngest == SpecIngestInit /\ [][SpecIngestNext]_vars

----------------------------------------------------------------------------
(* The server answering questions after its start-up ingestion *)

\* the store and the ledger after ingestDocuments has ingested the directory
IngestedStore ==
    UNION {{Row(c) : c \in Range(chunkText(cleanText(files[f]), f, chunkSize,
                                           chunkOverlap))} : f \in MdFiles}

SpecAskInit ==
    /\ lastIndex = [p \in GlobalPatterns |-> 0]
    /\ call = NoCall
    /\ files = [f \in MdFiles |-> <<"a">>]
    /\ now = 1
    /\ ledger = [f \in MdFiles |->
                    [contentHash |-> calculateHash(files[f]), lastIngested |-> now]]
    /\ store = IngestedStore
    /\ ing = [IngIdle EXCEPT !.pc = "done"]
    /\ AskInit

SpecAsk == SpecAskInit /\ [][AskNext]_vars

----------------------------------------------------------------------------
(* What a text contains, whatever was tested before *)

\* some pattern of the list has a match in text
Matches(text, patterns) ==
    \E k \in 1..Len(patterns) : MatchesFrom(text, patterns[k], 0) # {}

HasKeyword(text) ==
    \E i \in 1..Len(text) :
        \E keyword \in DOMAIN_KEYWORDS : LexIncludes(LexToLowerCase(text[i]), keyword)

OutOfDomain(text) == ~HasKeyword(text) /\ Matches(text, GENERIC_PATTERNS)

LengthVerdict(text) ==
    IF getWordCount(text) < MinWordCount THEN Violation("INVALID_QUERY")
    ELSE IF Length(text) > MaxQuestionLength THEN Violation("QUERY_TOO_LONG")
    ELSE NotBlocked

\* the verdict of the four checks in their order, the first flag winning
OrderedVerdict(text) ==
    IF Matches(text, PROMPT_INJECTION_PATTERNS) THEN Violation("PROMPT_INJECTION")
    ELSE IF Matches(text, SENSITIVE_DATA_PATTERNS) THEN Violation("SENSITIVE_DATA")
    ELSE IF OutOfDomain(text) THEN Violation("OUT_OF_DOMAIN")
    ELSE LengthVerdict(text)

FreshLastIndex == [p \in GlobalPatterns |-> 0]

IsWord(w) == w # ""

\* the words of the content of a chunk, the content being currentChunk
\* joined by spaces
ContentWords(chunk) == SelectSeq(chunk.content, IsWord)

\* the last d elements of ws
Suffix(ws, d) == SubSeq(ws, Len(ws) - d + 1, Len(ws))

\* chunks k, k + 1, ... give the words rest, in order, once each has dropped
\* some leading words that end the chunk before it
RECURSIVE Reassembles(_, _, _)
Reassembles(chunks, k, rest) ==
    IF k > Len(chunks) THEN rest = <<>>
    ELSE LET prev == IF k = 1 THEN <<>> ELSE ContentWords(chunks[k - 1])
             cur  == ContentWords(chunks[k])
         IN  \E d \in 0..Len(cur) :
                 /\ d <= Len(prev)
                 /\ Suffix(prev, d) = SubSeq(cur, 1, d)
                 /\ Len(cur) - d <= Len(rest)
                 /\ SubSeq(cur, d + 1, Len(cur)) = SubSeq(rest, 1, Len(cur) - d)
                 /\ Reassembles(chunks, k + 1,
                                SubSeq(rest, Len(cur) - d + 1, Len(rest)))

Returned(fn) == call.fn = fn

\* the rows addChunks inserts for the file f when its raw content is content
RowsFrom(f, content) ==
    {Row(c) : c \in Range(chunkText(cleanText(content), f, chunkSize, chunkOverlap))}

----------------------------------------------------------------------------
(* Claims *)

\* C1: checkQuestion returns the violation of the first of the four checks
\* (injection, sensitive data, domain, length) whose condition holds for the
\* question, and {blocked: false} when none holds.
C1_FirstFlagWins ==
    Returned("checkQuestion") => call.result = OrderedVerdict(call.text)

\* C2: the result of a guardrail call depends only on the text: after any
\* earlier calls it is the result the same text gets from the freshly loaded
\* module.
C2_SameTextSameResult ==
    /\ Returned("checkQuestion") =>
           call.result = checkQuestion(call.text, FreshLastIndex).result
    /\ Returned("checkResponse") =>
           call.result = checkResponse(call.text, FreshLastIndex).result

\* C3: unless an earlier check flagged the question, checkQuestion reports
\* OUT_OF_DOMAIN exactly when the question has no domain keyword and matches
\* a generic pattern; such a question is never reported INVALID_QUERY, also
\* when it has fewer than three words; any other question left to the later
\* checks gets the verdict of the length check.
C3_DomainBeforeLength ==
    Returned("checkQuestion") =>
        LET q == call.text
            r == call.result
            earlier == r \in {Violation("PROMPT_INJECTION"), Violation("SENSITIVE_DATA")}
        IN  /\ r = Violation("OUT_OF_DOMAIN") => OutOfDomain(q)
            /\ OutOfDomain(q) /\ ~earlier => r = Violation("OUT_OF_DOMAIN")
            /\ OutOfDomain(q) => r # Violation("INVALID_QUERY")
            /\ ~OutOfDomain(q) /\ ~earlier => r = LengthVerdict(q)

\* C3 witness: the one-word greeting was checked and reported OUT_OF_DOMAIN
C3_Witness ==
    /\ Returned("checkQuestion")
    /\ call.text = <<"ola">>
    /\ getWordCount(call.text) < MinWordCount
    /\ call.result = Violation("OUT_OF_DOMAIN")

\* C4: a question flagged by none of the injection, sensitive-data and domain
\* checks gets INVALID_QUERY when it has fewer than 3 words (whatever its
\* length), else QUERY_TOO_LONG when it is longer than 1000, else
\* {blocked: false}.
C4_LengthCheck ==
    Returned("checkQuestion") =>
        LET q == call.text
            r == call.result
        IN  r \notin {Violation("PROMPT_INJECTION"), Violation("SENSITIVE_DATA"),
                      Violation("OUT_OF_DOMAIN")}
            => /\ getWordCount(q) < 3 => r = Violation("INVALID_QUERY")
               /\ getWordCount(q) >= 3 /\ Length(q) > 1000 =>
                      r = Violation("QUERY_TOO_LONG")
               /\ getWordCount(q) >= 3 /\ Length(q) <= 1000 => r = NotBlocked

\* C4 witness: a question of fewer than 3 words and more than 1000 characters
\* was reported INVALID_QUERY
C4_Witness ==
    /\ Returned("checkQuestion")
    /\ getWordCount(call.text) < 3
    /\ Length(call.text) > 1000
    /\ call.result = Violation("INVALID_QUERY")

\* C5: checkResponse returns SYSTEM_LEAK for every answer that contains a
\* system-framing phrase and {blocked: false} for every other answer.
C5_LeakAlwaysBlocked ==
    Returned("checkResponse") =>
        call.result = IF Matches(call.text, SYSTEM_LEAK_PATTERNS)
                        THEN Violation("SYSTEM_LEAK")
                        ELSE NotBlocked

\* C6: a request whose question checkQuestion blocked has ended with the
\* block result and has made no embedding call, no search and no completion
\* call; a request that has made one of these calls had its question
\* returned {blocked: false} by checkQuestion.
C6_BlockedQuestionIsTerminal ==
    \A r \in Requests :
        LET q == req[r]
        IN  /\ (q.guardrailResult # NULL /\ q.guardrailResult.blocked) =>
                   /\ q.pc = "done"
                   /\ q.calls = [embedding |-> 0, search |-> 0, completion |-> 0]
                   /\ q.response =
                          [status |-> 403, blocked |-> TRUE,
                           reason |-> q.guardrailResult.reason,
                           policy_violated |-> q.guardrailResult.policy_violated]
            /\ (\/ q.pc \in {"embedding", "searching", "completing"}
                \/ q.calls.embedding + q.calls.search + q.calls.completion > 0) =>
                   q.guardrailResult = NotBlocked

\* C6 witness: a blocked question was answered with the block result while
\* another request was admitted to retrieval
C6_Witness ==
    \E r, t \in Requests :
        /\ req[r].guardrailResult # NULL
        /\ req[r].guardrailResult.blocked
        /\ req[r].pc = "done"
        /\ req[t].calls.embedding > 0

\* C7: every generated answer has been through checkResponse when the
\* request is answered; when checkResponse flagged the answer, the response
\* holds no answer, no citations and no metrics; a response that holds an
\* answer holds the one checkResponse returned {blocked: false} for.
C7_FlaggedAnswerNotDelivered ==
    \A r \in Requests :
        LET q == req[r]
        IN  /\ q.answer # NoText => q.responseGuardrail # NULL
            /\ (q.responseGuardrail # NULL /\ q.responseGuardrail.blocked) =>
                   /\ q.pc = "done"
                   /\ DOMAIN q.response \cap {"answer", "citations", "metrics"} = {}
            /\ (q.response # NULL /\ "answer" \in DOMAIN q.response) =>
                   /\ q.responseGuardrail = NotBlocked
                   /\ q.response.answer = q.answer

\* C7 witness: a generated answer was flagged and the request answered
C7_Witness ==
    \E r \in Requests :
        /\ req[r].answer = <<"as an ai model">>
        /\ req[r].responseGuardrail = Violation("SYSTEM_LEAK")
        /\ req[r].response # NULL

\* C8: a document that was up to date when a run of ingestDocuments listed
\* the directory (recorded hash equal to the hash of its content, chunks in
\* the store) causes no embedding call, no deletion, no insertion and no
\* ledger write in that run, and its ledger record stays what it was.
C8_IdempotentIngestion ==
    \A f \in ing.unchanged :
        /\ ing.ops[f] = NoOps
        /\ ledger[f] = ing.ledger0[f]
        /\ RowsOf(store, f) # {}

\* C8 witness: a later run finished over a document ingested by an earlier run
C8_Witness ==
    /\ ing.pc = "done"
    /\ \E f \in ing.unchanged :
        /\ ledger[f].lastIngested < now
        /\ ing.ops[f] = NoOps

\* C9: needsReingestion returns true when the ledger has no record of the
\* file, when the recorded hash differs from the hash of the content, and
\* when the hash is the same but the store has no chunk of the file; it
\* returns false otherwise; the ledger and the store are left as they were.
C9_NeedsReingestion ==
    [][ing.pc = "check" /\ ing'.pc \notin {"check", "failed"} =>
        LET f == Head(ing.queue)
        IN  /\ ing'.needsUpdate =
                  (\/ ledger[f] = NoRecord
                   \/ ledger[f].contentHash # calculateHash(ing.raw)
                   \/ RowsOf(store, f) = {})
            /\ ledger' = ledger
            /\ store' = store]_vars

\* C9 witness: the hash was the recorded one, the chunks were gone, and
\* needsReingestion returned true
C9_Witness ==
    /\ ing.pc = "delete"
    /\ ing.needsUpdate
    /\ ledger[Current] # NoRecord
    /\ ledger[Current].contentHash = calculateHash(ing.raw)
    /\ RowsOf(store, Current) = {}

\* C10: while addChunks waits for its embedding calls the store does not
\* change; a failed embedding call makes addChunks fail with the store as it
\* was, whatever the other calls of the batch do afterwards; the store
\* changes only by the one insertion of the whole batch, after every
\* embedding call of the batch has returned.
C10_AllOrNothing ==
    [][/\ ing.pc = "embed" => store' = store
       /\ ing'.error = "EmbeddingProviderError" => ing'.pc = "failed"
       /\ ing.pc = "failed" /\ ing'.pc = "failed" => store' = store
       /\ ing.pc = "insert" /\ store' # store =>
              /\ ing.embedded = 1..Len(ing.chunks)
              /\ store' = store \cup insertData]_vars

\* C10 witness: one embedding call of a batch failed after another had
\* succeeded and while a third was in flight, and no chunk of the batch is
\* in the store
C10_Witness ==
    /\ ing.pc = "failed"
    /\ ing.error = "EmbeddingProviderError"
    /\ ing.embedded # {}
    /\ ing.pending # {}
    /\ insertData \cap store = {}

\* C11: reingestDocuments empties the store and leaves the ledger as it
\* was before it lists the directory; when its run completes, every
\* document of the directory has exactly the chunks of its present content
\* in the store, inserted by this run (also when the recorded hash was the
\* hash of the content), and a ledger record with the hash of its raw
\* content written by this run.
C11_ReingestAll ==
    [][/\ (ing.pc # "list" /\ ing'.pc = "list" /\ ing'.caller = "reingestDocuments") =>
              /\ store' = {}
              /\ ledger' = ledger
       /\ (ing'.caller = "reingestDocuments" /\ ing.pc # "done" /\ ing'.pc = "done") =>
              \A f \in MdFiles :
                  /\ RowsOf(store', f) =
                         {Row(c) : c \in Range(chunkText(cleanText(files'[f]), f,
                                                         chunkSize, chunkOverlap))}
                  /\ ing'.ops[f].inserted > 0
                  /\ ledger'[f] = [contentHash  |-> calculateHash(files'[f]),
                                   lastIngested |-> now']]_vars

\* C11 witness: a run of reingestDocuments completed and ingested again a
\* document whose recorded hash was the hash of its content
C11_Witness ==
    /\ ing.caller = "reingestDocuments"
    /\ ing.pc = "done"
    /\ \E f \in MdFiles :
        /\ ing.ledger0[f] # NoRecord
        /\ ing.ledger0[f].contentHash = calculateHash(files[f])
        /\ ing.ops[f].inserted > 0
        /\ ledger[f].lastIngested = now

\* C12: within a run, no step of a document is made before the documents
\* ahead of it in the directory listing are finished; an error of any step
\* ends the run with that error, with the ledger and the chunks of the
\* documents already ingested as they were; after it the run changes
\* neither the store nor the ledger and makes no further step; no step of a
\* document is made twice in a run.
C12_FailFast ==
    [][(ing' # ing /\ now' = now) =>
          LET later == IF ing'.queue = <<>> THEN {} ELSE Range(Tail(ing'.queue))
              done  == MdFiles \ Range(ing.queue)
              size(f) == Len(chunkText(cleanText(files'[f]), f, chunkSize, chunkOverlap))
          IN  /\ \A f \in later : ing'.ops[f] = NoOps
              /\ ing'.error # "none" => ing'.pc = "failed"
              /\ (ing.pc # "failed" /\ ing'.pc = "failed") =>
                     /\ ing'.error # "none"
                     /\ ing'.queue = ing.queue
                     /\ ing'.ops = ing.ops
                     /\ ledger' = ledger
                     /\ \A f \in done : RowsOf(store', f) = RowsOf(store, f)
              /\ ing.pc = "failed" =>
                     /\ ing'.pc = "failed"
                     /\ ing'.ops = ing.ops
                     /\ ing'.queue = ing.queue
                     /\ store' = store
                     /\ ledger' = ledger
              /\ ing.pc # "failed" => \A f \in MdFiles :
                     /\ ing'.ops[f].deletes <= 1
                     /\ ing'.ops[f].ledgerWrites <= 1
                     /\ ing'.ops[f].embedCalls <= size(f)
                     /\ ing'.ops[f].inserted <= size(f)]_vars

\* C12 witness: the run ingested the first document, failed in the
\* embedding calls of the second, and the chunks and the ledger record of
\* the first are in place
C12_Witness ==
    /\ ing.pc = "failed"
    /\ ing.error = "EmbeddingProviderError"
    /\ ing.queue = <<"b.md">>
    /\ ing.ops["a.md"].inserted > 0
    /\ ledger["a.md"] # NoRecord
    /\ ledger["a.md"].lastIngested = now
    /\ RowsOf(store, "a.md") # {}
    /\ ledger["b.md"] = NoRecord

\* C13: when the server begins to serve, every document of the data
\* directory is recorded in the ledger with the hash of its content and has
\* chunks in the store, and the documents that were up to date when the
\* server started were not ingested again.
C13_StartupIngestsWhatNeedsIt ==
    [][(~Serving /\ Serving') =>
          /\ \A f \in MdFiles : UpToDate(f)'
          /\ \A f \in ing'.unchanged : ing'.ops[f] = NoOps]_vars

\* C20: a document whose ingestion stopped after addChunks had inserted its
\* chunks and before upsertDocumentHash had written the ledger, and whose
\* content is the same, causes no embedding call, no deletion and no
\* insertion in the next run of ingestDocuments.
C20_CrashBeforeLedgerWriteIsSafe ==
    \A f \in ing.interrupted :
        /\ ing.ops[f].embedCalls = 0
        /\ ing.ops[f].deletes = 0
        /\ ing.ops[f].inserted = 0

\* the longest word of a sequence of words, 0 when there is none
RECURSIVE LongestWord(_)
LongestWord(ws) ==
    IF ws = <<>> THEN 0
    ELSE LET rest == LongestWord(Tail(ws))
         IN  IF WordLength(Head(ws)) > rest THEN WordLength(Head(ws)) ELSE rest

\* chunks k + 1, k + 2, ... are each seeded with the last
\* floor(overlap / size * w) words of the chunk before them, w being its
\* number of words (all of them when that number is w or more), and go on
\* with the words of the text from position pos + 1
RECURSIVE SeededFrom(_, _, _, _, _, _)
SeededFrom(chunks, k, words, pos, size, overlap) ==
    IF k >= Len(chunks) THEN TRUE
    ELSE LET closed  == chunks[k].content
             next    == chunks[k + 1].content
             w       == Len(closed)
             floor   == (overlap * w) \div size
             carried == IF floor > w THEN w ELSE floor
             fresh   == Len(next) - carried
         IN  /\ fresh >= 1
             /\ pos + fresh <= Len(words)
             /\ next = Suffix(closed, carried) \o SubSeq(words, pos + 1, pos + fresh)
             /\ SeededFrom(chunks, k + 1, words, pos + fresh, size, overlap)

\* C14: the chunks chunkText returns have chunk_index 0..n-1 in output
\* order, total_chunks n, the source given, and the id source_chunk_i, so
\* that no two chunks of a call have the same id.
C14_ChunkContiguity ==
    Returned("chunkText") =>
        LET chunks == call.result
            n      == Len(chunks)
        IN  /\ \A k \in 1..n :
                   /\ chunks[k].metadata.chunk_index = k - 1
                   /\ chunks[k].metadata.total_chunks = n
                   /\ chunks[k].source = call.source
                   /\ chunks[k].id = <<call.source, "_chunk_", k - 1>>
            /\ \A j, k \in 1..n : chunks[j].id = chunks[k].id => j = k

\* C14 witness: a call returned three chunks or more
C14_Witness ==
    /\ Returned("chunkText")
    /\ Len(call.result) >= 3

\* C15: the chunks of a call, taken in order, each without the leading
\* words it repeats from the end of the chunk before it, give the words of
\* the text in order, none lost, added or moved.
C15_ChunkCoverage ==
    Returned("chunkText") => Reassembles(call.result, 1, WordsOf(call.text))

\* C15 witness: a text of different words was cut into chunks that carry
\* words over from one chunk to the next
C15_Witness ==
    /\ Returned("chunkText")
    /\ Len(call.result) >= 3
    /\ call.overlap > 0
    /\ \E i, j \in 1..Len(call.text) : ~IsBreak(call.text[i]) /\ ~IsBreak(call.text[j])
                                          /\ call.text[i] # call.text[j]
    /\ \E k \in 2..Len(call.result) :
           Len(ContentWords(call.result[k])) >= 2

\* C16: when overlap > 0 and a call returns more than one chunk, every chunk
\* after the first begins with one or more of the words that end the chunk
\* before it.
C16_OverlapProperty ==
    (Returned("chunkText") /\ call.overlap > 0 /\ Len(call.result) > 1) =>
        \A k \in 1..(Len(call.result) - 1) :
            LET prev == ContentWords(call.result[k])
                cur  == ContentWords(call.result[k + 1])
            IN  \E d \in 1..Len(prev) :
                    d <= Len(cur) /\ Suffix(prev, d) = SubSeq(cur, 1, d)

\* C17: chunkText of the empty text returns no chunk.
C17_EmptyTextNoChunks ==
    (Returned("chunkText") /\ call.text = <<>>) => call.result = <<>>

\* C18: the response to a request whose question checkQuestion blocked, or
\* whose answer checkResponse blocked, has the flag blocked and the policy
\* of the violation; the response to an internal error has no flag, no
\* policy, no reason and no message of the error.
C18_BlocksCarryPolicy ==
    \A r \in Requests :
        LET q == req[r]
            flagged(result) ==
                /\ {"blocked", "policy_violated"} \subseteq DOMAIN q.response
                /\ q.response.blocked
                /\ q.response.policy_violated = result.policy_violated
        IN  q.response # NULL =>
               /\ (q.guardrailResult # NULL /\ q.guardrailResult.blocked) =>
                      flagged(q.guardrailResult)
               /\ (q.responseGuardrail # NULL /\ q.responseGuardrail.blocked) =>
                      flagged(q.responseGuardrail)
               /\ q.response = InternalError(r) =>
                      DOMAIN q.response \cap
                          {"blocked", "policy_violated", "reason", "message"} = {}

C21_HashMatchesChunks ==
    \A f \in MdFiles :
        (ledger[f] # NoRecord /\ RowsOf(store, f) # {}) =>
            \E content \in RawContents :
                /\ calculateHash(content) = ledger[f].contentHash
                /\ RowsOf(store, f) = RowsFrom(f, content)

\* C22: when ingestFile goes on to chunk a document that needs ingestion,
\* no chunk of that source is left in the store, whether the ledger has a
\* record of it or not; and when addChunks has inserted, the chunks of the
\* source are exactly the chunks of its present cleaned content.
C22_OldChunksDeleted ==
    [][LET f == Head(ing.queue)
       IN  /\ (ing.pc = "delete" /\ ing'.pc = "embed") =>
                  RowsOf(store', f) = {}
           /\ (ing.pc = "insert" /\ ing'.pc = "upsert") =>
                  RowsOf(store', f) = RowsFrom(f, files'[f])]_vars

C24_OverlapWordCount ==
    (Returned("chunkText") /\ call.result # <<>>) =>
        LET words == Split(call.text)
            first == call.result[1].content
        IN  /\ first = SubSeq(words, 1, Len(first))
            /\ SeededFrom(call.result, 1, words, Len(first), call.size, call.overlap)

\* C25: when every word of the text is shorter than chunkSize and overlap is
\* smaller than chunkSize, the content of every chunk is not longer than
\* chunkSize plus one separator and the longest word of the text.
C25_ChunkSizeLimit ==
    (/\ Returned("chunkText")
     /\ call.overlap < call.size
     /\ LongestWord(Split(call.text)) < call.size) =>
        \A k \in 1..Len(call.result) :
            JoinLength(call.result[k].content)
                <= call.size + 1 + LongestWord(Split(call.text))

====
